---- MODULE Spec2Model ----
(***************************************************************************)
(* State-machine model of the browser client of the age / autism analysis  *)
(* service.  Two variants of the App component exist in the source:        *)
(*   "mui"   - the Material-UI App, which submits through                  *)
(*             utils/api.js analyzeImage (validation, AbortController      *)
(*             timer, error mapping);                                      *)
(*   "plain" - the plain-React App, which validates at selection time and  *)
(*             calls fetch directly.                                       *)
(* One behaviour of the model is one mounted App of one variant, driven by *)
(* user events (select, drop, capture, analyze, reset, close alert) and by *)
(* network / timer events (response headers, body, transport failure,      *)
(* timer expiry).  A JavaScript handler runs to its first await as one     *)
(* atomic step; what follows an await is a step of its own.                *)
(***************************************************************************)
EXTENDS Integers, Sequences, FiniteSets, TLC

(* ------------------------------ bounds -------------------------------- *)
\* object URLs a behaviour may create (URL.createObjectURL calls)
MaxHandles == 2
\* POST requests a behaviour may issue
MaxPosts == 2
\* webcam captures whose fetch(screenshot) promise is still pending
MaxPendingCaptures == 1

(* --------------------- optional values (undefined / null) ------------- *)
None == <<>>
Some(v) == <<v>>
IsSome(o) == o # <<>>
Get(o) == o[1]

(* ------------------------------ strings ------------------------------- *)
\* A path is a sequence of characters, so that startsWith is computed.
HTTP_PREFIX == <<"h", "t", "t", "p">>
StartsWith(s, p) == Len(s) >= Len(p) /\ SubSeq(s, 1, Len(p)) = p

\* config.API_BASE_URL of the mui variant (config.js is not in the source tree)
API_BASE_URL == <<"$", "B", "A", "S", "E">>
\* the origin written out in the plain variant
PLAIN_BASE_URL == <<"h", "t", "t", "p", "s", ":", "/", "/", "a", "g", "e", "-", "a", "p", "i">>

\* the resolution without its startsWith test
ResolveUrl_alwaysPrefix(base, p) == base \o p

\* the ternary `p.startsWith('http') ? p : `${base}${p}``
ResolveUrl(base, p) == IF StartsWith(p, HTTP_PREFIX) THEN p ELSE base \o p

(* ------------------------------- files -------------------------------- *)
\* A MIME type is the sequence <<major, "/", minor>>.
MB == 1024 * 1024
JPEG == <<"image", "/", "jpeg">>
PNG == <<"image", "/", "png">>
GIF == <<"image", "/", "gif">>
TEXT == <<"text", "/", "plain">>
\* the files a user may offer: a small image, an image of exactly the maximum
\* size, a 15MB image and a text file
Files ==
  { [type |-> JPEG, size |-> 4 * 1024], [type |-> JPEG, size |-> 10 * MB],
    [type |-> JPEG, size |-> 15 * MB], [type |-> TEXT, size |-> 4 * 1024] }
\* the File built by captureFromWebcam: new File([blob], ..., {type: 'image/jpeg'})
WebcamFile == [type |-> JPEG, size |-> 4 * 1024]

\* config.UPLOAD.ALLOWED_TYPES / MAX_FILE_SIZE and config.ERRORS.* (config.js
\* is not in the source tree; the values follow the specification's 4.1)
ALLOWED_TYPES == {JPEG, PNG, GIF}
MAX_FILE_SIZE == 10 * MB
INVALID_FILE_TYPE == "config.ERRORS.INVALID_FILE_TYPE"
FILE_TOO_LARGE == "config.ERRORS.FILE_TOO_LARGE"
BACKEND_ERROR == "config.ERRORS.BACKEND_ERROR"
NETWORK_ERROR == "config.ERRORS.NETWORK_ERROR"

\* validateFile without its size test
ApiValidateFile_noSizeCheck(f) ==
  IF ~IsSome(f) THEN Some("No file selected")
  ELSE IF Get(f).type \notin ALLOWED_TYPES THEN Some(INVALID_FILE_TYPE)
  ELSE None

\* utils/api.js validateFile: the message it throws, or None when it returns true
ApiValidateFile(f) ==
  IF ~IsSome(f) THEN Some("No file selected")
  ELSE IF Get(f).type \notin ALLOWED_TYPES THEN Some(INVALID_FILE_TYPE)
  ELSE IF Get(f).size > MAX_FILE_SIZE THEN Some(FILE_TOO_LARGE)
  ELSE None

\* plain App.validateFile: the message it passes to setError, or None when it
\* returns true (file.type.startsWith('image/'), size > 10 * 1024 * 1024)
PlainValidateFile(f) ==
  IF ~IsSome(f) THEN Some("No file selected")
  ELSE IF ~StartsWith(Get(f).type, <<"image", "/">>)
    THEN Some("Invalid file type. Please select an image file.")
  ELSE IF Get(f).size > 10 * 1024 * 1024
    THEN Some("File too large. Please select an image smaller than 10MB.")
  ELSE None

(* ------------------------- analysis responses ------------------------- *)
\* A parsed JSON body is a record; an absent field is None.  kind is what
\* JSON.parse produced: "object", "array", "null", "number", "string",
\* "boolean".  Only an object carries fields.
CHILD == "child_autism_screened"
ADULT == "adult_invalid"

REL_AGE == <<"/", "g">>
REL_AUT == <<"/", "a">>
ABS_AUT == <<"h", "t", "t", "p", ":", "a">>

\* An entry of results: kind is "object" or "null" (a null entry); confidence
\* is a percentage in tenths (820 is 82.0); final_decision_type is the typeof
\* of final_decision.
Entry(region, label, confidence, final, finalType) ==
  [kind |-> "object", region |-> region, label |-> label, confidence |-> confidence,
   final_decision |-> final, final_decision_type |-> finalType]
RegionEntry == Entry(Some("eyes"), Some("typical"), Some(82 * 10), None, "undefined")
FinalEntry == Entry(None, None, None, Some("Non-Autistic"), "string")
RESULTS1 == <<RegionEntry, FinalEntry>>

\* An age annotation {age, box}: box is "array", "string" or "undefined"
AgeSummary(url, kids, adults, annotations) ==
  [annotated_image_url |-> url, kids_count |-> kids, adults_count |-> adults,
   annotations |-> annotations]
AgeSummaries == { AgeSummary(Some(REL_AGE), Some(0), Some(2), None) }

AutismData ==
  [annotated_image_path : {None, Some(REL_AUT)}, results : {None, Some(RESULTS1)}]
    \cup { [annotated_image_path |-> Some(ABS_AUT), results |-> Some(RESULTS1)] }

Opt(S) == {None} \cup {Some(x) : x \in S}

ObjectBodies ==
  [kind : {"object"},
   status : {Some(CHILD), Some(ADULT), None},
   message : {None, Some("Adult detected")},
   error : {None},
   annotated_image_url : {None},
   age_check_summary : Opt(AgeSummaries),
   autism_prediction_data : Opt(AutismData)]

NoFields(k) ==
  [kind |-> k, status |-> None, message |-> None, error |-> None,
   annotated_image_url |-> None, age_check_summary |-> None, autism_prediction_data |-> None]

\* bodies carrying an explicit `error` field: a message, and the empty string
ErrorBodies ==
  { [NoFields("object") EXCEPT !.error = Some("boom")],
    [NoFields("object") EXCEPT !.error = Some("boom"), !.status = Some(CHILD),
       !.autism_prediction_data =
         Some([annotated_image_path |-> Some(REL_AUT), results |-> Some(RESULTS1)])],
    [NoFields("object") EXCEPT !.error = Some(""), !.status = Some(ADULT)] }

NonObjectBodies == { NoFields(k) : k \in {"array", "null", "number", "string", "boolean"} }

Bodies == ObjectBodies \cup ErrorBodies \cup NonObjectBodies

\* JavaScript truthiness of an optional string field and of an optional path
\* field (undefined and the empty string are falsy)
TruthyStr(o) == IsSome(o) /\ Get(o) # ""
TruthyPath(o) == IsSome(o) /\ Len(Get(o)) > 0

\* `!data || typeof data !== 'object'`: typeof [] and typeof {} are 'object',
\* typeof null is 'object' but !null is true
FailsObjectCheck(data) == data.kind \notin {"object", "array"}

(* ----------------------------- HTTP ----------------------------------- *)
HttpStatuses == {200, 400, 404, 500}
ResponseOk(st) == st >= 200 /\ st <= 299

\* messages of the TypeError a failed fetch rejects with (Chromium, Firefox, Safari)
TransportMessages ==
  {"Failed to fetch", "NetworkError when attempting to fetch resource.", "Load failed"}
\* error.message.includes('fetch')
IncludesFetch(m) == m \in {"Failed to fetch", "NetworkError when attempting to fetch resource."}
\* error.message.includes('Failed to fetch')
IncludesFailedToFetch(m) == m = "Failed to fetch"
\* error.message.includes('HTTP error')
IncludesHttpError(m) == m \in {"HTTP error! status: 400", "HTTP error! status: 404", "HTTP error! status: 500"}

TIMEOUT_MESSAGE == "Request timed out. Please try again."

\* utils/api.js analyzeImage, lines 51-59: the message thrown for a non-2xx status
ApiHttpErrorMessage(st) ==
  IF st = 404 THEN "API endpoint not found. Please check the configuration."
  ELSE IF st >= 500 THEN BACKEND_ERROR
  ELSE IF st = 400 THEN "HTTP 400: Bad Request"
  ELSE "HTTP status"

\* plain handleAnalyze line 703: `HTTP error! status: ${response.status}`
PlainHttpErrorMessage(st) ==
  IF st = 400 THEN "HTTP error! status: 400"
  ELSE IF st = 404 THEN "HTTP error! status: 404"
  ELSE "HTTP error! status: 500"

\* utils/api.js analyzeImage catch block, lines 74-82: the message of the error
\* rethrown for a caught error of the given name and message
ApiCatch(name, msg) ==
  IF name = "AbortError" THEN TIMEOUT_MESSAGE
  ELSE IF name = "TypeError" /\ IncludesFetch(msg) THEN NETWORK_ERROR
  ELSE msg

\* plain handleAnalyze catch block, lines 714-723: the message passed to setError
PlainCatch(msg) ==
  IF IncludesFailedToFetch(msg) THEN "Network error. Please check your connection and try again."
  ELSE IF IncludesHttpError(msg) THEN "Server error. Please try again later."
  ELSE IF msg # "" THEN msg
  ELSE "An unexpected error occurred. Please try again."

(* ------------------------------- state -------------------------------- *)
VARIABLES
  variant,                  \* "mui" or "plain": which App is mounted
  selectedImage,            \* selectedImage (mui) / selectedFile (plain)
  previewUrl,               \* previewUrl
  isProcessing,             \* isProcessing (mui) / isLoading (plain)
  error,                    \* error
  backendMessage,           \* mui: backendMessage
  ageAnnotatedImageUrl,     \* mui: ageAnnotatedImageUrl
  autismAnnotatedImageUrl,  \* mui: autismAnnotatedImageUrl
  ageAnalysis,              \* mui: ageAnalysis ({} is None)
  autismAnalysis,           \* mui: autismAnalysis ({} is None)
  result,                   \* plain: result
  capturing,                \* mui: captureFromWebcam promises not yet resolved
  requests,                 \* POSTs not yet settled: id, file, and whether the
                            \* caller awaits fetch or response.json()
  timers,                   \* requests whose setTimeout is still pending
  posts,                    \* POSTs issued so far
  accepted,                 \* analyze actions that passed validation so far
  nextHandle,               \* next object URL that URL.createObjectURL returns
  released,                 \* per object URL: number of URL.revokeObjectURL calls
  last,                     \* the event that produced this state, and its file
  lastResponse              \* kind, status, error, age and autism data of the last 2xx body read

uiVars == <<selectedImage, previewUrl, isProcessing, error, backendMessage,
            ageAnnotatedImageUrl, autismAnnotatedImageUrl, ageAnalysis,
            autismAnalysis, result>>
muiResultVars == <<backendMessage, ageAnnotatedImageUrl, autismAnnotatedImageUrl,
                   ageAnalysis, autismAnalysis>>
netVars == <<requests, timers, posts, accepted>>
handleVars == <<nextHandle, released>>
vars == <<variant, uiVars, capturing, netVars, handleVars, last, lastResponse>>

Handles == 1 .. MaxHandles + 1
BlobUrl(h) == [kind |-> "blob", id |-> h]
\* webcamRef.current.getScreenshot(): a data: URL, not an object URL
Screenshot == [kind |-> "data", id |-> 0]

Event(e, f) == [ev |-> e, file |-> f]
\* what is remembered of a completed response
Summary(data) ==
  [kind |-> data.kind, status |-> data.status, error |-> data.error,
   age_check_summary |-> data.age_check_summary,
   autism_prediction_data |-> data.autism_prediction_data]

Init ==
  /\ variant \in {"mui", "plain"}
  /\ selectedImage = None
  /\ previewUrl = None
  /\ isProcessing = FALSE
  /\ error = None
  /\ backendMessage = ""
  /\ ageAnnotatedImageUrl = None
  /\ autismAnnotatedImageUrl = None
  /\ ageAnalysis = None
  /\ autismAnalysis = None
  /\ result = None
  /\ capturing = 0
  /\ requests = {}
  /\ timers = {}
  /\ posts = 0
  /\ accepted = 0
  /\ nextHandle = 1
  /\ released = [h \in Handles |-> 0]
  /\ last = Event("init", None)
  /\ lastResponse = None

\* URL.createObjectURL: a fresh handle
CanCreate == nextHandle <= MaxHandles

(* ------------------------- mui: input capture ------------------------- *)
\* resetStateExceptImage, as the values it sets
ResetStateExceptImage ==
  /\ ageAnalysis' = None
  /\ autismAnalysis' = None
  /\ autismAnnotatedImageUrl' = None
  /\ ageAnnotatedImageUrl' = None
  /\ backendMessage' = ""
  /\ error' = None

\* handleImageSelect with event.target.files[0] = f
MuiImageSelect(f) ==
  /\ variant = "mui"
  /\ CanCreate
  /\ selectedImage' = Some(f)
  /\ previewUrl' = Some(BlobUrl(nextHandle))
  /\ nextHandle' = nextHandle + 1
  /\ ResetStateExceptImage
  /\ last' = Event("select", Some(f))
  /\ UNCHANGED <<variant, isProcessing, result, capturing, netVars, released, lastResponse>>

\* captureFromWebcam up to fetch(screenshot): the promise chain is pending
MuiCaptureStart ==
  /\ variant = "mui"
  /\ capturing < MaxPendingCaptures
  /\ capturing' = capturing + 1
  /\ last' = Event("capture_start", None)
  /\ UNCHANGED <<variant, uiVars, netVars, handleVars, lastResponse>>

\* the .then(blob => ...) callback of captureFromWebcam
MuiCaptureDone ==
  /\ variant = "mui"
  /\ capturing > 0
  /\ capturing' = capturing - 1
  /\ selectedImage' = Some(WebcamFile)
  /\ previewUrl' = Some(Screenshot)
  /\ ResetStateExceptImage
  /\ last' = Event("capture", Some(WebcamFile))
  /\ UNCHANGED <<variant, isProcessing, result, netVars, handleVars, lastResponse>>

\* handleReset (mui); the Reset button is disabled while isProcessing
MuiReset ==
  /\ variant = "mui"
  /\ ~isProcessing
  /\ selectedImage' = None
  /\ previewUrl' = None
  /\ ageAnalysis' = None
  /\ autismAnalysis' = None
  /\ ageAnnotatedImageUrl' = None
  /\ autismAnnotatedImageUrl' = None
  /\ backendMessage' = ""
  /\ error' = None
  /\ released' = IF IsSome(previewUrl) /\ Get(previewUrl).kind = "blob"
                   THEN [released EXCEPT ![Get(previewUrl).id] = @ + 1]
                   ELSE released
  /\ last' = Event("reset", None)
  /\ UNCHANGED <<variant, isProcessing, result, capturing, netVars, nextHandle, lastResponse>>

(* ------------------------ plain: input capture ------------------------ *)
\* handleFileSelect(file): file is None when files[0] is undefined
HandleFileSelect(f) ==
  /\ variant = "plain"
  /\ result' = None
  /\ IF IsSome(PlainValidateFile(f))
       THEN /\ error' = PlainValidateFile(f)
            /\ UNCHANGED <<selectedImage, previewUrl, nextHandle>>
       ELSE /\ CanCreate
            /\ error' = None
            /\ selectedImage' = f
            /\ previewUrl' = Some(BlobUrl(nextHandle))
            /\ nextHandle' = nextHandle + 1
  /\ UNCHANGED <<variant, isProcessing, muiResultVars, capturing, netVars, released, lastResponse>>

\* handleFileInputChange: the file dialog; files[0] is undefined when it is emptied
PlainFileInputChange(f) ==
  /\ HandleFileSelect(f)
  /\ last' = Event("select", f)

\* handleDrop: only when files.length > 0
PlainDrop(f) ==
  /\ HandleFileSelect(Some(f))
  /\ last' = Event("drop", Some(f))

\* handleReset that forgets setResult(null)
PlainReset_keepsResult ==
  /\ variant = "plain"
  /\ ~isProcessing
  /\ selectedImage' = None
  /\ previewUrl' = None
  /\ error' = None
  /\ last' = Event("reset", None)
  /\ UNCHANGED <<variant, isProcessing, result, muiResultVars, capturing, netVars, handleVars,
                 lastResponse>>

\* handleReset (plain); the Reset button is disabled while isLoading
PlainReset ==
  /\ variant = "plain"
  /\ ~isProcessing
  /\ selectedImage' = None
  /\ previewUrl' = None
  /\ error' = None
  /\ result' = None
  /\ last' = Event("reset", None)
  /\ UNCHANGED <<variant, isProcessing, muiResultVars, capturing, netVars, handleVars, lastResponse>>

\* the Alert's onClose: setError(null)
PlainCloseAlert ==
  /\ variant = "plain"
  /\ IsSome(error)
  /\ error' = None
  /\ last' = Event("close_alert", None)
  /\ UNCHANGED <<variant, selectedImage, previewUrl, isProcessing, result, muiResultVars,
                 capturing, netVars, handleVars, lastResponse>>

(* ----------------------------- submission ----------------------------- *)
Request(id, f, ph) == [id |-> id, file |-> f, phase |-> ph]

\* a handleAnalyze without its `finally`: the loading flag stays on
SettleFailure_keepsLoading(r, msg) ==
  /\ error' = Some(msg)
  /\ isProcessing' = isProcessing
  /\ requests' = requests \ {r}
  /\ posts' = posts

\* a catch block that sends the request once more
SettleFailure_retries(r, msg) ==
  /\ error' = Some(msg)
  /\ isProcessing' = FALSE
  /\ requests' = requests \ {r}
  /\ posts' = posts + 1

\* the `catch` and `finally` of handleAnalyze for request r: setError(msg),
\* setIsProcessing(false); nothing is sent again
SettleFailure(r, msg) ==
  /\ error' = Some(msg)
  /\ isProcessing' = FALSE
  /\ requests' = requests \ {r}
  /\ posts' = posts

\* an Analyze button that is not disabled while a submission is pending
AnalyzeEnabled_ignoresProcessing == IsSome(selectedImage)

\* the Analyze button: disabled={!selectedImage || isProcessing}
AnalyzeEnabled == IsSome(selectedImage) /\ ~isProcessing

\* mui handleAnalyze up to its await, with analyzeImage up to its own await:
\* validateFile, new AbortController, setTimeout, fetch
MuiAnalyze ==
  /\ variant = "mui"
  /\ AnalyzeEnabled
  /\ ageAnalysis' = None
  /\ autismAnalysis' = None
  /\ autismAnnotatedImageUrl' = None
  /\ ageAnnotatedImageUrl' = None
  /\ backendMessage' = ""
  /\ IF IsSome(ApiValidateFile(selectedImage))
       THEN \* validateFile throws; the catch blocks run before any other event
            /\ error' = Some(ApiCatch("Error", Get(ApiValidateFile(selectedImage))))
            /\ isProcessing' = FALSE
            /\ last' = Event("analyze_invalid", selectedImage)
            /\ UNCHANGED netVars
       ELSE /\ posts < MaxPosts
            /\ error' = None
            /\ isProcessing' = TRUE
            /\ accepted' = accepted + 1
            /\ posts' = posts + 1
            /\ requests' = requests \cup {Request(posts + 1, selectedImage, "fetching")}
            /\ timers' = timers \cup {posts + 1}
            /\ last' = Event("analyze", selectedImage)
  /\ UNCHANGED <<variant, selectedImage, previewUrl, result, capturing, handleVars, lastResponse>>

\* plain handleAnalyze up to its await: fetch, with no timer and no signal
PlainAnalyze ==
  /\ variant = "plain"
  /\ AnalyzeEnabled
  /\ IF ~IsSome(selectedImage)
       THEN /\ error' = Some("Please select an image first")
            /\ last' = Event("analyze_invalid", selectedImage)
            /\ UNCHANGED <<isProcessing, result, netVars>>
       ELSE /\ posts < MaxPosts
            /\ isProcessing' = TRUE
            /\ error' = None
            /\ result' = None
            /\ accepted' = accepted + 1
            /\ posts' = posts + 1
            /\ requests' = requests \cup {Request(posts + 1, selectedImage, "fetching")}
            /\ last' = Event("analyze", selectedImage)
            /\ UNCHANGED timers
  /\ UNCHANGED <<variant, selectedImage, previewUrl, muiResultVars, capturing, handleVars,
                 lastResponse>>

\* the message handleAnalyze's catch receives for a non-2xx status
HttpFailureMessage(st) ==
  IF variant = "mui" THEN ApiCatch("Error", ApiHttpErrorMessage(st))
  ELSE PlainCatch(PlainHttpErrorMessage(st))

\* fetch of request r resolves with the response headers: clearTimeout (mui),
\* then the response.ok test; a 2xx response goes on to await response.json()
FetchResolve(r, st) ==
  /\ r \in requests
  /\ r.phase = "fetching"
  /\ timers' = timers \ {r.id}
  /\ IF ResponseOk(st)
       THEN /\ requests' = (requests \ {r}) \cup {Request(r.id, r.file, "reading")}
            /\ last' = Event("headers", r.file)
            /\ UNCHANGED <<uiVars, posts>>
       ELSE /\ SettleFailure(r, HttpFailureMessage(st))
            /\ last' = Event("http_error", r.file)
            /\ UNCHANGED <<selectedImage, previewUrl, muiResultVars, result>>
  /\ UNCHANGED <<variant, capturing, accepted, handleVars, lastResponse>>

\* the message handleAnalyze's catch receives for a fetch that rejects with a
\* TypeError carrying message m
TransportFailureMessage(m) ==
  IF variant = "mui" THEN ApiCatch("TypeError", m) ELSE PlainCatch(m)

\* fetch of request r rejects (DNS, connection, CORS): control jumps to the
\* catch block, so the clearTimeout of line 49 is not reached
FetchReject(r, m) ==
  /\ r \in requests
  /\ r.phase = "fetching"
  /\ SettleFailure(r, TransportFailureMessage(m))
  /\ last' = Event("network_error", r.file)
  /\ UNCHANGED <<variant, selectedImage, previewUrl, muiResultVars, result, capturing,
                 timers, accepted, handleVars, lastResponse>>

\* the requests whose AbortController the timer of request id aborts
AbortedBy(id) == {r \in requests : r.id = id}

\* the setTimeout callback of request id: controller.abort().  The call of
\* that request, if it is still pending, rejects with an AbortError.
TimerFire(id) ==
  /\ id \in timers
  /\ timers' = timers \ {id}
  /\ IF AbortedBy(id) # {}
       THEN /\ SettleFailure(CHOOSE r \in AbortedBy(id) : TRUE,
                             ApiCatch("AbortError", "The user aborted a request."))
            /\ last' = Event("timeout", (CHOOSE r \in AbortedBy(id) : TRUE).file)
            /\ UNCHANGED <<selectedImage, previewUrl, muiResultVars, result>>
       ELSE /\ last' = Event("stale_timer", None)
            /\ UNCHANGED <<uiVars, requests, posts>>
  /\ UNCHANGED <<variant, capturing, accepted, handleVars, lastResponse>>

JSON_SYNTAX_ERROR == "Unexpected token < in JSON at position 0"

\* response.json() of request r rejects with a SyntaxError: the body is not JSON
BodyParseFails(r) ==
  /\ r \in requests
  /\ r.phase = "reading"
  /\ SettleFailure(r, IF variant = "mui" THEN ApiCatch("SyntaxError", JSON_SYNTAX_ERROR)
                                         ELSE PlainCatch(JSON_SYNTAX_ERROR))
  /\ last' = Event("invalid_json", r.file)
  /\ UNCHANGED <<variant, selectedImage, previewUrl, muiResultVars, result, capturing,
                 timers, accepted, handleVars, lastResponse>>

\* utils/api.js analyzeImage lines 63-73: the message thrown for a parsed body,
\* or None when the body is returned
ApiBodyError(data) ==
  IF FailsObjectCheck(data) THEN Some("Invalid response format from server")
  ELSE IF TruthyStr(data.error) THEN Some(Get(data.error))
  ELSE None

\* plain handleAnalyze lines 708-711
PlainBodyError(data) ==
  IF FailsObjectCheck(data) THEN Some("Unexpected result format")
  ELSE None

\* mui handleAnalyze lines 107-113: whether the age branch is taken
MuiAgeBranch(res) ==
  IsSome(res.age_check_summary) /\ TruthyPath(Get(res.age_check_summary).annotated_image_url)

\* the autism branch without its adult_invalid test
MuiAutismBranch_ignoresStatus(res) ==
  /\ IsSome(res.autism_prediction_data)
  /\ TruthyPath(Get(res.autism_prediction_data).annotated_image_path)

\* mui handleAnalyze lines 116-136: whether autism data is stored
MuiAutismBranch(res) ==
  /\ IsSome(res.autism_prediction_data)
  /\ TruthyPath(Get(res.autism_prediction_data).annotated_image_path)
  /\ res.status # Some(ADULT)

\* response.json() of request r resolves with data (mui): analyzeImage's
\* checks, then the rest of handleAnalyze
MuiBodyRead(r, data) ==
  /\ variant = "mui"
  /\ r \in requests
  /\ r.phase = "reading"
  /\ lastResponse' = Some(Summary(data))
  /\ IF IsSome(ApiBodyError(data))
       THEN /\ SettleFailure(r, ApiCatch("Error", Get(ApiBodyError(data))))
            /\ last' = Event("invalid_response", r.file)
            /\ UNCHANGED muiResultVars
       ELSE /\ backendMessage' = (IF TruthyStr(data.message) THEN Get(data.message) ELSE "")
            /\ IF MuiAgeBranch(data)
                 THEN /\ ageAnnotatedImageUrl' =
                           Some(ResolveUrl(API_BASE_URL, Get(Get(data.age_check_summary).annotated_image_url)))
                      /\ ageAnalysis' = data.age_check_summary
                 ELSE UNCHANGED <<ageAnnotatedImageUrl, ageAnalysis>>
            /\ IF MuiAutismBranch(data)
                 THEN /\ autismAnnotatedImageUrl' =
                           Some(ResolveUrl(API_BASE_URL, Get(Get(data.autism_prediction_data).annotated_image_path)))
                      /\ autismAnalysis' = data.autism_prediction_data
                 ELSE /\ autismAnnotatedImageUrl' = None
                      /\ autismAnalysis' = None
            /\ isProcessing' = FALSE
            /\ requests' = requests \ {r}
            /\ last' = Event("success", r.file)
            /\ UNCHANGED <<error, posts>>
  /\ UNCHANGED <<variant, selectedImage, previewUrl, result, capturing, timers,
                 accepted, handleVars>>

\* response.json() of request r resolves with data (plain)
PlainBodyRead(r, data) ==
  /\ variant = "plain"
  /\ r \in requests
  /\ r.phase = "reading"
  /\ lastResponse' = Some(Summary(data))
  /\ IF IsSome(PlainBodyError(data))
       THEN /\ SettleFailure(r, PlainCatch(Get(PlainBodyError(data))))
            /\ last' = Event("invalid_response", r.file)
            /\ UNCHANGED result
       ELSE /\ result' = Some(data)
            /\ isProcessing' = FALSE
            /\ requests' = requests \ {r}
            /\ last' = Event("success", r.file)
            /\ UNCHANGED <<error, posts>>
  /\ UNCHANGED <<variant, selectedImage, previewUrl, muiResultVars, capturing, timers,
                 accepted, handleVars>>

(* ------------------------------ rendering ----------------------------- *)
\* plain renderResults reaches its status branches only with a stored result
\* and isLoading false
PlainRendered == variant = "plain" /\ ~isProcessing /\ IsSome(result)

\* whether an autism-annotated image is on screen: mui line 380; plain line 758
\* (child branch only)
ShowsAutismImage ==
  IF variant = "mui" THEN IsSome(autismAnnotatedImageUrl)
  ELSE /\ PlainRendered
       /\ Get(result).status = Some(CHILD)
       /\ IsSome(Get(result).autism_prediction_data)
       /\ TruthyPath(Get(Get(result).autism_prediction_data).annotated_image_path)

\* whether the region table is on screen: mui line 405 (results non-empty);
\* plain line 770 (results truthy, child branch only)
ShowsAutismTable ==
  IF variant = "mui"
    THEN /\ IsSome(autismAnalysis)
         /\ IsSome(Get(autismAnalysis).results)
         /\ Len(Get(Get(autismAnalysis).results)) > 0
    ELSE /\ PlainRendered
         /\ Get(result).status = Some(CHILD)
         /\ IsSome(Get(result).autism_prediction_data)
         /\ IsSome(Get(Get(result).autism_prediction_data).results)

\* a null entry of results
NullEntry ==
  [kind |-> "null", region |-> None, label |-> None, confidence |-> None,
   final_decision |-> None, final_decision_type |-> "undefined"]

\* the callback r => r.final_decision: truthy for an entry carrying one
HasFinal(e) == e.kind = "object" /\ TruthyStr(e.final_decision)
\* the callback r => r.region
HasRegion(e) == e.kind = "object" /\ TruthyStr(e.region)

\* results.find(r => r.final_decision): the index found, 0 when none is.  The
\* scan stops at the first entry found.
FindFinal(results) ==
  IF \E i \in 1 .. Len(results) : HasFinal(results[i])
    THEN CHOOSE i \in 1 .. Len(results) :
           HasFinal(results[i]) /\ \A j \in 1 .. i - 1 : ~HasFinal(results[j])
    ELSE 0

\* whether results.find(r => r.final_decision) throws: it reads a property of
\* a null entry before it has found an entry
FindThrows(results) ==
  \E i \in 1 .. Len(results) :
    /\ results[i].kind = "null"
    /\ (FindFinal(results) = 0 \/ i < FindFinal(results))

\* whether results.filter(r => r.region) throws: filter visits every entry
FilterThrows(results) == \E i \in 1 .. Len(results) : results[i].kind = "null"

\* the entries filter(r => r.region) keeps, in order
RegionEntries(results) == SelectSeq(results, HasRegion)

(* mui render, lines 296-430; there is no try/catch and no error boundary *)
MuiAgeBlockShown ==
  /\ IsSome(ageAnalysis)
  /\ (IsSome(Get(ageAnalysis).kids_count) \/ IsSome(Get(ageAnalysis).adults_count))

\* lines 336-350: ann.box && ann.box.join(', ') on a box that is no array
MuiAnnotationsThrow ==
  /\ MuiAgeBlockShown
  /\ IsSome(Get(ageAnalysis).annotations)
  /\ \E i \in 1 .. Len(Get(Get(ageAnalysis).annotations)) :
       Get(Get(ageAnalysis).annotations)[i].box = "string"

MuiTableShown ==
  /\ IsSome(autismAnalysis)
  /\ IsSome(Get(autismAnalysis).results)
  /\ Len(Get(Get(autismAnalysis).results)) > 0

\* lines 410-414 and 176-192: filter on a null entry, confidence.toFixed(1) on
\* a missing confidence; lines 416-422: find
MuiTableThrows ==
  /\ MuiTableShown
  /\ LET results == Get(Get(autismAnalysis).results) IN
       \/ FilterThrows(results)
       \/ \E i \in 1 .. Len(results) : HasRegion(results[i]) /\ ~IsSome(results[i].confidence)
       \/ FindThrows(results)

(* plain renderResults, lines 730-835, and the components it mounts *)
PlainResults == Get(Get(result).autism_prediction_data).results

\* the child branch has results to show (lines 770, 775)
PlainHasResults ==
  /\ Get(result).status = Some(CHILD)
  /\ IsSome(Get(result).autism_prediction_data)
  /\ IsSome(PlainResults)

\* an error thrown inside renderResults' try block (lines 775-784): find on a
\* null entry, final_decision.toLowerCase() on a value that is no string
PlainTryThrows ==
  /\ PlainHasResults
  /\ \/ FindThrows(Get(PlainResults))
     \/ /\ FindFinal(Get(PlainResults)) # 0
        /\ Get(PlainResults)[FindFinal(Get(PlainResults))].final_decision_type # "string"

\* an error thrown while React renders PredictionTable (lines 515-543), which
\* runs after renderResults has returned, outside its try block
PlainChildThrows ==
  /\ PlainHasResults
  /\ ~PlainTryThrows
  /\ FilterThrows(Get(PlainResults))

\* what the results panel ends up as: "crash" is an error thrown during
\* render that nothing catches
RenderOutcome ==
  IF variant = "mui"
    THEN IF MuiAnnotationsThrow \/ MuiTableThrows THEN "crash" ELSE "content"
  ELSE IF isProcessing THEN "loading"
  ELSE IF ~IsSome(result) THEN "placeholder"
  ELSE IF PlainTryThrows THEN "error_displaying"
  ELSE IF PlainChildThrows THEN "crash"
  ELSE IF Get(result).status \in {Some(CHILD), Some(ADULT)} THEN "content"
  ELSE "unexpected_format"

(* --------------------------- specification ---------------------------- *)
Next ==
  \/ \E f \in Files : MuiImageSelect(f)
  \/ MuiCaptureStart
  \/ MuiCaptureDone
  \/ MuiReset
  \/ MuiAnalyze
  \/ \E f \in Opt(Files) : PlainFileInputChange(f)
  \/ \E f \in Files : PlainDrop(f)
  \/ PlainReset
  \/ PlainCloseAlert
  \/ PlainAnalyze
  \/ \E r \in requests, st \in HttpStatuses : FetchResolve(r, st)
  \/ \E r \in requests, m \in TransportMessages : FetchReject(r, m)
  \/ \E id \in timers : TimerFire(id)
  \/ \E r \in requests : BodyParseFails(r)
  \/ \E r \in requests, data \in Bodies : MuiBodyRead(r, data)
  \/ \E r \in requests, data \in Bodies : PlainBodyRead(r, data)

Spec == Init /\ [][Next]_vars

(* ------------------------------- claims ------------------------------- *)
FULL_AUTISM == [annotated_image_path |-> Some(REL_AUT), results |-> Some(RESULTS1)]

\* C1: whenever the last completed response has status 'adult_invalid', no
\* autism table and no autism-annotated image is on screen, whatever autism
\* data that response carried and whatever an earlier child response left.
C1_AdultShowsNoAutism ==
  (IsSome(lastResponse) /\ Get(lastResponse).status = Some(ADULT))
    => (~ShowsAutismImage /\ ~ShowsAutismTable)

\* C1 witness: an adult_invalid response carrying an annotated image path and
\* results has just been processed by the mui handleAnalyze.
C1_Witness ==
  /\ variant = "mui"
  /\ last.ev = "success"
  /\ IsSome(lastResponse)
  /\ Get(lastResponse).status = Some(ADULT)
  /\ Get(lastResponse).autism_prediction_data = Some(FULL_AUTISM)

\* the selection, preview, result data and error of a freshly mounted App
InitialUi ==
  /\ selectedImage = None
  /\ previewUrl = None
  /\ ~isProcessing
  /\ error = None
  /\ backendMessage = ""
  /\ ageAnnotatedImageUrl = None
  /\ autismAnnotatedImageUrl = None
  /\ ageAnalysis = None
  /\ autismAnalysis = None
  /\ result = None

\* C2: every reset step ends in the initial empty UI state, and a reset that
\* follows a reset changes nothing (no state, no handle released again).
C2_ResetRestoresInitial ==
  [][(last'.ev = "reset")
       => (InitialUi' /\ (last.ev = "reset" => UNCHANGED <<uiVars, netVars, handleVars>>))]_vars

\* C2 witness: a reset after selections, two submissions and a response.
C2_Witness ==
  /\ last.ev = "reset"
  /\ posts = 2
  /\ nextHandle > 1
  /\ IsSome(lastResponse)

\* a file that is no image or is larger than 10MB
FailsValidation(f) ==
  IsSome(f) /\ (Get(f).type[1] # "image" \/ Get(f).size > 10 * MB)

\* C3 (as claimed): offering a file that fails validation, through the file
\* dialog or by drag-drop, leaves the selected image and its preview as they
\* were and shows an error.
C3_RejectedSelectionKeepsImage ==
  [][(last'.ev \in {"select", "drop"} /\ FailsValidation(last'.file))
       => (selectedImage' = selectedImage /\ previewUrl' = previewUrl /\ IsSome(error'))]_vars

\* C4: at most one request is outstanding; while one is, the loading flag is
\* true and the analyze action is disabled.
C4_SingleRequestInFlight ==
  /\ Cardinality(requests) <= 1
  /\ (requests # {} => (isProcessing /\ ~AnalyzeEnabled))
  /\ (AnalyzeEnabled => (IsSome(selectedImage) /\ ~isProcessing))

\* C4 witness: a second request is in flight after the first one has settled.
C4_Witness == Cardinality(requests) = 1 /\ posts = 2 /\ isProcessing

\* C5 (as claimed): every pending submission, whether it awaits the response
\* or the response body, has its timeout timer armed.
C5_PendingHasTimer == \A r \in requests : r.id \in timers

FailureEvents ==
  {"analyze_invalid", "timeout", "network_error", "http_error", "invalid_json",
   "invalid_response"}

NoResultData ==
  /\ backendMessage = ""
  /\ ageAnnotatedImageUrl = None
  /\ autismAnnotatedImageUrl = None
  /\ ageAnalysis = None
  /\ autismAnalysis = None
  /\ result = None

C7_HandlesReleasedOnce ==
  \A h \in 1 .. nextHandle - 1 :
    /\ released[h] <= 1
    /\ (previewUrl # Some(BlobUrl(h)) => released[h] = 1)

\* C8 (as claimed): a body that is no JSON object, or that carries an `error`
\* field, never completes a submission successfully.
C8_BadBodyIsFailure ==
  [][(last'.ev = "success")
       => (Get(lastResponse').kind = "object" /\ ~IsSome(Get(lastResponse').error))]_vars

\* C9: an analyze action on a missing, non-image or oversize file sends
\* nothing: the POST count and the outstanding requests are unchanged and the
\* error is set; and no outstanding request carries such a file.
C9_NoPostForInvalidFile ==
  [][/\ (last'.ev \in {"analyze", "analyze_invalid"}
          /\ (~IsSome(last'.file) \/ FailsValidation(last'.file)))
         => (posts' = posts /\ requests' = requests /\ IsSome(error')
             /\ last'.ev = "analyze_invalid")
     /\ \A r \in requests' : ~FailsValidation(r.file)]_vars

\* C9 witness: the mui client has just refused to submit a selected 15MB
\* image, after an earlier POST.
C9_Witness ==
  /\ last.ev = "analyze_invalid"
  /\ last.file = Some([type |-> JPEG, size |-> 15 * MB])
  /\ error = Some(FILE_TOO_LARGE)
  /\ posts = 1

\* C10: the number of POSTs sent equals the number of analyze actions that
\* passed validation, and request ids are never reused.
C10_OnePostPerAnalyze ==
  /\ posts = accepted
  /\ \A r \in requests : r.id <= posts
  /\ \A r1, r2 \in requests : r1.id = r2.id => r1 = r2

\* C10 witness: after a transport failure of the first request the second
\* analyze action has sent the second POST, and it failed too.
C10_Witness == posts = 2 /\ accepted = 2 /\ last.ev = "network_error"

\* the network-error message of the mounted variant (api.js line 78, plain line 718)
NetworkErrorMessage ==
  IF variant = "mui" THEN NETWORK_ERROR
  ELSE "Network error. Please check your connection and try again."

\* C17 (as claimed): an abort by the timer ends with the timeout message, a
\* transport failure ends with the network-error message, and status 404,
\* status >= 500 and another non-2xx status end with three different messages.
C17_OneCategoryPerFailure ==
  [][/\ (last'.ev = "timeout" => error' = Some(TIMEOUT_MESSAGE))
     /\ (last'.ev = "network_error" => error' = Some(NetworkErrorMessage))
     /\ (last'.ev = "http_error" =>
           /\ HttpFailureMessage(404) # HttpFailureMessage(500)
           /\ HttpFailureMessage(404) # HttpFailureMessage(400)
           /\ HttpFailureMessage(500) # HttpFailureMessage(400))]_vars

\* C18 (as claimed): a response that has just been stored was produced by a
\* submission of the image that is selected now.
C18_ResultMatchesSelection == (last.ev = "success") => (last.file = selectedImage)

\* C19 (as claimed): every pending timer belongs to a call of analyzeImage
\* that has not settled yet.
C19_SettledTimerNotPending == timers \subseteq {r.id : r \in requests}

(* ------------------- specification of response rendering -------------- *)
\* confidences in tenths: 0, 39.9, 40, 69.9, 70, 82
ConfidenceGrid == {0, 399, 400, 699, 700, 820}

ABS_AGE == <<"h", "t", "t", "p", "s", ":", "g">>
\* a relative path that happens to start with the letters http
HTTPX_AUT == <<"h", "t", "t", "p", "x">>

RenderResults ==
  { <<Entry(Some("eyes"), Some("typical"), c, None, "undefined"), FinalEntry>> :
      c \in Opt(ConfidenceGrid) }
  \cup { <<>>,
         <<RegionEntry>>,
         <<FinalEntry, RegionEntry, Entry(None, None, None, Some("Autistic"), "string")>>,
         <<FinalEntry, NullEntry>>,
         <<NullEntry, FinalEntry>>,
         <<RegionEntry, Entry(None, None, None, Some("7"), "number")>> }

RenderAutismData ==
  [annotated_image_path : {None, Some(REL_AUT), Some(ABS_AUT), Some(HTTPX_AUT)},
   results : Opt(RenderResults)]

RenderAgeSummaries ==
  { AgeSummary(None, Some(1), Some(0), None),
    AgeSummary(Some(REL_AGE), Some(0), Some(2), None),
    AgeSummary(Some(ABS_AGE), Some(1), Some(0), Some(<<[age |-> 7, box |-> "array"]>>)),
    AgeSummary(None, Some(1), Some(0), Some(<<[age |-> 7, box |-> "array"]>>)),
    AgeSummary(Some(REL_AGE), Some(1), Some(0), Some(<<[age |-> 7, box |-> "string"]>>)) }

RenderBodies ==
  [kind : {"object"},
   status : {Some(CHILD), Some(ADULT), None},
   message : {None, Some("Adult detected"), Some("Analysis done")},
   error : {None},
   annotated_image_url : {None, Some(REL_AGE), Some(ABS_AGE)},
   age_check_summary : Opt(RenderAgeSummaries),
   autism_prediction_data : Opt(RenderAutismData)]

\* a submission whose response headers have arrived: the state in which
\* response.json() is awaited
InitRender ==
  /\ variant \in {"mui", "plain"}
  /\ selectedImage = Some(WebcamFile)
  /\ previewUrl = Some(BlobUrl(1))
  /\ isProcessing = TRUE
  /\ error = None
  /\ backendMessage = ""
  /\ ageAnnotatedImageUrl = None
  /\ autismAnnotatedImageUrl = None
  /\ ageAnalysis = None
  /\ autismAnalysis = None
  /\ result = None
  /\ capturing = 0
  /\ requests = {Request(1, Some(WebcamFile), "reading")}
  /\ timers = {}
  /\ posts = 1
  /\ accepted = 1
  /\ nextHandle = 2
  /\ released = [h \in Handles |-> 0]
  /\ last = Event("headers", Some(WebcamFile))
  /\ lastResponse = None

NextRender ==
  \/ \E r \in requests, data \in RenderBodies : MuiBodyRead(r, data)
  \/ \E r \in requests, data \in RenderBodies : PlainBodyRead(r, data)

SpecRender == InitRender /\ [][NextRender]_vars

\* C11 (as claimed): a stored response never makes rendering raise an
\* unhandled error; a response with an unrecognized status shows the generic
\* "unexpected format" notice, and a failure caught while rendering ends in
\* that same notice.
C11_RenderNeverFails ==
  (last.ev = "success")
    => /\ RenderOutcome # "crash"
       /\ RenderOutcome # "error_displaying"
       /\ (Get(lastResponse).status \notin {Some(CHILD), Some(ADULT)}
             => RenderOutcome = "unexpected_format")

(* ----------------------- what the results panel shows ----------------- *)
\* the comparison without its boundary values
getConfidenceColor_strict(conf) ==
  IF IsSome(conf) /\ Get(conf) > 70 * 10 THEN "high"
  ELSE IF IsSome(conf) /\ Get(conf) > 40 * 10 THEN "medium"
  ELSE "low"

\* mui ConfidenceLevel.getConfidenceColor (line 178): green, amber or red,
\* named by band here; a missing confidence compares false with both
\* thresholds.  Confidences are in tenths of a percent.
getConfidenceColor(conf) ==
  IF IsSome(conf) /\ Get(conf) >= 70 * 10 THEN "high"
  ELSE IF IsSome(conf) /\ Get(conf) >= 40 * 10 THEN "medium"
  ELSE "low"

\* plain ConfidenceLevel.getConfidenceClass (lines 501-505), on a number
getConfidenceClass(confidence) ==
  IF confidence >= 70 * 10 THEN "high"
  ELSE IF confidence >= 40 * 10 THEN "medium"
  ELSE "low"

\* `result.confidence || 0` (plain line 537)
OrZero(c) == IF IsSome(c) THEN Get(c) ELSE 0

Row(region, label, band) == [region |-> region, label |-> label, band |-> band]

\* the rows of the mui "Regional Analysis" block (lines 410-414): an entry
\* without label shows an empty label
MuiRows ==
  IF MuiTableShown /\ ~MuiTableThrows /\ ~MuiAnnotationsThrow
    THEN LET es == RegionEntries(Get(Get(autismAnalysis).results)) IN
         [i \in 1 .. Len(es) |->
            Row(Get(es[i].region),
                IF IsSome(es[i].label) THEN Get(es[i].label) ELSE "",
                getConfidenceColor(es[i].confidence))]
    ELSE <<>>

\* the rows of the plain PredictionTable (lines 519-541)
PlainRows ==
  IF PlainRendered /\ PlainHasResults /\ ~PlainTryThrows /\ ~PlainChildThrows
    THEN LET es == RegionEntries(Get(PlainResults)) IN
         [i \in 1 .. Len(es) |->
            Row(Get(es[i].region),
                IF TruthyStr(es[i].label) THEN Get(es[i].label) ELSE "N/A",
                getConfidenceClass(OrZero(es[i].confidence)))]
    ELSE <<>>

ShownRows == IF variant = "mui" THEN MuiRows ELSE PlainRows

\* the final verdict line: mui lines 416-422, plain lines 775-784
ShownVerdict ==
  IF variant = "mui"
    THEN IF /\ MuiTableShown /\ ~MuiTableThrows /\ ~MuiAnnotationsThrow
            /\ FindFinal(Get(Get(autismAnalysis).results)) # 0
           THEN LET results == Get(Get(autismAnalysis).results) IN
                results[FindFinal(results)].final_decision
           ELSE None
  ELSE IF /\ PlainRendered /\ PlainHasResults /\ ~PlainTryThrows /\ ~PlainChildThrows
          /\ FindFinal(Get(PlainResults)) # 0
         THEN Get(PlainResults)[FindFinal(Get(PlainResults))].final_decision
         ELSE None

\* results whose entries are all objects, whose region entries carry label
\* and confidence, and whose final_decision values are strings
WellFormed(results) ==
  \A i \in 1 .. Len(results) :
    /\ results[i].kind = "object"
    /\ IsSome(results[i].region) => (IsSome(results[i].label) /\ IsSome(results[i].confidence))
    /\ IsSome(results[i].final_decision) => results[i].final_decision_type = "string"

\* the band the specification gives a confidence (in tenths of a percent)
SpecBand(c) == IF c >= 700 THEN "high" ELSE IF c >= 400 THEN "medium" ELSE "low"

\* the last response is a child_autism_screened one with a non-empty,
\* well-formed results array
ChildWithResults ==
  /\ last.ev = "success"
  /\ Get(lastResponse).status = Some(CHILD)
  /\ IsSome(Get(lastResponse).autism_prediction_data)
  /\ IsSome(Get(Get(lastResponse).autism_prediction_data).results)
  /\ Len(Get(Get(Get(lastResponse).autism_prediction_data).results)) > 0
  /\ WellFormed(Get(Get(Get(lastResponse).autism_prediction_data).results))

\* C12 (as claimed): after a child_autism_screened response with a non-empty
\* results array the panel shows one row per entry carrying region, in order,
\* with its label and band, and the final_decision of the first entry carrying
\* one, whether or not annotated_image_path is present.
C12_ChildResultsShown ==
  ChildWithResults =>
    LET results == Get(Get(Get(lastResponse).autism_prediction_data).results)
        regs == SelectSeq(results, LAMBDA e : IsSome(e.region))
        fins == SelectSeq(results, LAMBDA e : IsSome(e.final_decision))
    IN /\ Len(ShownRows) = Len(regs)
       /\ \A i \in 1 .. Len(regs) :
            ShownRows[i] = Row(Get(regs[i].region), Get(regs[i].label),
                               SpecBand(Get(regs[i].confidence)))
       /\ ShownVerdict = (IF Len(fins) > 0 THEN fins[1].final_decision ELSE None)

\* `x ?? 0` on a count (mui lines 330, 333-334)
CountOrZero(c) == IF IsSome(c) THEN Get(c) ELSE 0

\* the "Kids: k | Adults: a" line as <<k, a>>, None when it is not on screen:
\* mui lines 327-335 (from the stored ageAnalysis); the plain AgeSummary
\* (lines 546-583) lists the annotations' ages and has no such line
ShownAgeCounts ==
  IF variant = "mui"
    THEN IF MuiAgeBlockShown /\ ~MuiAnnotationsThrow /\ ~MuiTableThrows
           THEN Some(<<CountOrZero(Get(ageAnalysis).kids_count),
                       CountOrZero(Get(ageAnalysis).adults_count)>>)
           ELSE None
  ELSE None

\* C13 (as claimed): after a child_autism_screened or adult_invalid response
\* whose age_check_summary carries kids_count and adults_count, the panel
\* (when it renders without error) shows "Kids: k | Adults: a" with those
\* counts, whether or not annotated_image_url or annotations is present.
C13_AgeCountsShown ==
  (/\ last.ev = "success"
   /\ RenderOutcome = "content"
   /\ Get(lastResponse).status \in {Some(CHILD), Some(ADULT)}
   /\ IsSome(Get(lastResponse).age_check_summary)
   /\ IsSome(Get(Get(lastResponse).age_check_summary).kids_count)
   /\ IsSome(Get(Get(lastResponse).age_check_summary).adults_count))
    => ShownAgeCounts =
         Some(<<Get(Get(Get(lastResponse).age_check_summary).kids_count),
                Get(Get(Get(lastResponse).age_check_summary).adults_count)>>)

\* m.toLowerCase().includes('adult'), on the messages of the model
IncludesAdult(m) == m \in {"Adult detected"}

\* whether the notice that autism screening is inapplicable is on screen:
\* mui lines 371-377 (from the stored message), plain lines 807-809 (from
\* the status)
ShowsAdultNotice ==
  IF variant = "mui"
    THEN /\ ~MuiAnnotationsThrow /\ ~MuiTableThrows
         /\ backendMessage # ""
         /\ IncludesAdult(backendMessage)
  ELSE /\ PlainRendered
       /\ ~PlainTryThrows /\ ~PlainChildThrows
       /\ Get(result).status = Some(ADULT)

\* C14 (as claimed): after a response that renders without error, the
\* notice is on screen exactly when the status is adult_invalid, whatever the
\* response's message is.
C14_AdultNoticeByStatus ==
  (last.ev = "success" /\ RenderOutcome \in {"content", "unexpected_format"})
    => (ShowsAdultNotice <=> Get(lastResponse).status = Some(ADULT))

\* the region entries of the last response's results
LastRegionEntries ==
  RegionEntries(Get(Get(Get(lastResponse).autism_prediction_data).results))

\* C15: for every confidence of the grid, a missing one included, the mui
\* and the plain band functions choose the same band, and every row on
\* screen carries the band of its entry's confidence: high from 70, medium
\* from 40 up to 70, low below 40 (a missing confidence counts as 0).
C15_BandMatchesThresholds ==
  /\ \A c \in Opt(ConfidenceGrid) : getConfidenceColor(c) = getConfidenceClass(OrZero(c))
  /\ (last.ev = "success" /\ Len(ShownRows) > 0)
       => \A i \in 1 .. Len(ShownRows) :
            ShownRows[i].band = SpecBand(OrZero(LastRegionEntries[i].confidence))

\* a row for a confidence of exactly 70 is on screen in the mui variant, in
\* the high band
C15_Witness ==
  /\ variant = "mui"
  /\ last.ev = "success"
  /\ Len(ShownRows) = 1
  /\ LastRegionEntries[1].confidence = Some(700)
  /\ ShownRows[1].band = "high"

\* the annotated images on screen, each with the response field it comes
\* from and the src it is given.  mui lines 308-322 and 380-394 (URLs resolved
\* in handleAnalyze, lines 108-110 and 126-128); plain lines 758-766 (child
\* branch) and 796-804 (adult branch), resolved while rendering.
Image(field, src) == [field |-> field, src |-> src]

MuiImages ==
  IF MuiAnnotationsThrow \/ MuiTableThrows THEN {}
  ELSE { Image("age_check_summary.annotated_image_url", Get(ageAnnotatedImageUrl)) :
           x \in {ageAnnotatedImageUrl} \ {None} }
       \cup { Image("autism_prediction_data.annotated_image_path", Get(autismAnnotatedImageUrl)) :
                x \in {autismAnnotatedImageUrl} \ {None} }

PlainImages ==
  IF ~PlainRendered \/ PlainTryThrows \/ PlainChildThrows THEN {}
  ELSE IF Get(result).status = Some(CHILD)
    THEN IF /\ IsSome(Get(result).autism_prediction_data)
            /\ TruthyPath(Get(Get(result).autism_prediction_data).annotated_image_path)
           THEN { Image("autism_prediction_data.annotated_image_path",
                        ResolveUrl(PLAIN_BASE_URL,
                                   Get(Get(Get(result).autism_prediction_data).annotated_image_path))) }
           ELSE {}
  ELSE IF Get(result).status = Some(ADULT)
    THEN IF TruthyPath(Get(result).annotated_image_url)
           THEN { Image("annotated_image_url",
                        ResolveUrl(PLAIN_BASE_URL, Get(Get(result).annotated_image_url))) }
           ELSE {}
  ELSE {}

ShownImages == IF variant = "mui" THEN MuiImages ELSE PlainImages

\* the value the last response carries in a path field
FieldValue(field) ==
  IF field = "age_check_summary.annotated_image_url"
    THEN Get(Get(Get(lastResponse).age_check_summary).annotated_image_url)
  ELSE IF field = "autism_prediction_data.annotated_image_path"
    THEN Get(Get(Get(lastResponse).autism_prediction_data).annotated_image_path)
  ELSE Get(Get(result).annotated_image_url)

\* the origin the mounted variant prefixes
BaseOrigin == IF variant = "mui" THEN API_BASE_URL ELSE PLAIN_BASE_URL

\* C16: every annotated image on screen after a response has as src the
\* value of its path field unchanged when the value's first four characters
\* are h, t, t, p, and the variant's base origin followed by the value
\* otherwise.
C16_UrlResolution ==
  (last.ev = "success") =>
    \A img \in ShownImages :
      LET v == FieldValue(img.field) IN
      IF Len(v) >= 4 /\ v[1] = "h" /\ v[2] = "t" /\ v[3] = "t" /\ v[4] = "p"
        THEN img.src = v
        ELSE /\ Len(img.src) = Len(BaseOrigin) + Len(v)
             /\ \A i \in 1 .. Len(BaseOrigin) : img.src[i] = BaseOrigin[i]
             /\ \A i \in 1 .. Len(v) : img.src[Len(BaseOrigin) + i] = v[i]

\* the mui variant shows a relative age image prefixed and an autism image
\* whose path starts with http (here "httpx") unchanged
C16_Witness ==
  /\ variant = "mui"
  /\ last.ev = "success"
  /\ Image("age_check_summary.annotated_image_url", API_BASE_URL \o REL_AGE) \in ShownImages
  /\ Image("autism_prediction_data.annotated_image_path", HTTPX_AUT) \in ShownImages

====
